---- MODULE Spec2Model ----
(***************************************************************************)
(* Model of the calculator service: the expression validator               *)
(* (utils/validators.py), the evaluator (utils/calculator_core.py) and the *)
(* HTTP handlers that persist calculations (routes/*.py).                  *)
(*                                                                         *)
(* A Python str is a sequence of one-character strings.  A Python number   *)
(* is a record [kind, n, d]: an int is n/1, a float is the reduced         *)
(* fraction n/d.  Floats are modelled by exact rational arithmetic, and    *)
(* round(x, 10) of a value with more than ten decimals is kept as the      *)
(* fraction with places = 10.  Not modelled: the sign of a float zero,     *)
(* the binary rounding of a double (it shows in // and ** on decimals that *)
(* have no finite binary form, in expressions longer than four             *)
(* characters), and whitespace other than space and tab.                   *)
(***************************************************************************)
EXTENDS Integers, Sequences, FiniteSets, TLC

VARIABLES
    expression,   \* the argument handed to validate_expression / evaluate
    pc,           \* position of the pure-function specifications
    verdict,      \* what validate_expression returned
    outcome,      \* what Calculator.evaluate returned or raised
    operands,     \* <<a, op, b>> the two-operand expression was built from
    store,        \* the calculations table: a set of rows
    clock,        \* datetime.utcnow at the last insertion: requests are handled one
                  \* after another and each insertion reads a later time
    issued,       \* number of session ids uuid.uuid4 generated for stored rows
    made,         \* per session id: rows inserted by calculate since its last clear
                  \* and not deleted one by one
    request,      \* the last HTTP request handled
    response,     \* the response to it
    removed       \* the rows delete_calculation deleted in that request

vars == <<expression, pc, verdict, outcome, operands,
          store, clock, issued, made, request, response, removed>>

(***************************************************************************)
(* Bounds of the model.                                                    *)
(***************************************************************************)
MaxLen == 4
MaxOperand == 12
MaxInserts == 3

(***************************************************************************)
(* Characters.                                                             *)
(***************************************************************************)
Digits == {"0", "1", "2", "3", "4", "5", "6", "7", "8", "9"}

\* The whitespace characters the inputs of the model use (a subset of \s).
Whitespace == {" ", "\t"}

DigitVal(c) ==
    CASE c = "0" -> 0 [] c = "1" -> 1 [] c = "2" -> 2 [] c = "3" -> 3
      [] c = "4" -> 4 [] c = "5" -> 5 [] c = "6" -> 6 [] c = "7" -> 7
      [] c = "8" -> 8 [] c = "9" -> 9

DigitChar(n) ==
    CASE n = 0 -> "0" [] n = 1 -> "1" [] n = 2 -> "2" [] n = 3 -> "3"
      [] n = 4 -> "4" [] n = 5 -> "5" [] n = 6 -> "6" [] n = 7 -> "7"
      [] n = 8 -> "8" [] n = 9 -> "9"

\* The character class [\d+\-*/.()\s] of both whitelists.
AllowedChars == Digits \cup {"+", "-", "*", "/", ".", "(", ")"} \cup Whitespace

(***************************************************************************)
(* str methods.                                                            *)
(***************************************************************************)
\* s.replace(' ', '')
RemoveSpaces(s) == SelectSeq(s, LAMBDA c : c # " ")

\* s.strip()
Strip(s) ==
    LET keep == {i \in 1..Len(s) : s[i] \notin Whitespace}
    IN  IF keep = {} THEN <<>>
        ELSE LET lo == CHOOSE i \in keep : \A j \in keep : i <= j
                 hi == CHOOSE i \in keep : \A j \in keep : j <= i
             IN  SubSeq(s, lo, hi)

\* s.count(c)
Count(s, c) == Cardinality({i \in 1..Len(s) : s[i] = c})

\* re.match(r'^[\d+\-*/.()\s]+$', s)
MatchesAllowed(s) == Len(s) > 0 /\ \A i \in 1..Len(s) : s[i] \in AllowedChars

(***************************************************************************)
(* utils/validators.py                                                     *)
(***************************************************************************)
\* [+\*/]{2,}
ConsecutiveOperators(s) ==
    \E i \in 1..(Len(s) - 1) : s[i] \in {"+", "*", "/"} /\ s[i + 1] \in {"+", "*", "/"}

\* --+(?!\d) : two or more '-' with no digit right after the matched run
MinusRunNoDigit(s) ==
    \E i \in 1..Len(s) : \E j \in (i + 1)..Len(s) :
        /\ \A k \in i..j : s[k] = "-"
        /\ (j = Len(s) \/ s[j + 1] \notin Digits)

\* The same pattern without the alternative for a run followed by a digit.
MinusRunDigitAllowed(s) == FALSE

\* -{2,}(?=\d) : two or more '-' with a digit right after the matched run
MinusRunThenDigit(s) ==
    \E i \in 1..Len(s) : \E j \in (i + 1)..Len(s) :
        /\ \A k \in i..j : s[k] = "-"
        /\ j < Len(s) /\ s[j + 1] \in Digits

\* re.search(r'\d*\.\d*\.\d*', s): two '.' with only digits between them
MultipleDecimalPoints(s) ==
    \E i \in 1..Len(s) : \E j \in (i + 1)..Len(s) :
        /\ s[i] = "." /\ s[j] = "."
        /\ \A k \in (i + 1)..(j - 1) : s[k] \in Digits

\* expression[0] in '+*/' or expression[-1] in '+*/-'
OperatorAtEnds(s) ==
    s[1] \in {"+", "*", "/"} \/ s[Len(s)] \in {"+", "*", "/", "-"}

\* expression.count('(') != expression.count(')')
UnmatchedParens(s) == Count(s, "(") # Count(s, ")")

_has_invalid_syntax(e) ==
    LET s == RemoveSpaces(e)
    IN  \/ ConsecutiveOperators(s)
        \/ MinusRunNoDigit(s)
        \/ MinusRunThenDigit(s)
        \/ OperatorAtEnds(s)
        \/ MultipleDecimalPoints(s)
        \/ UnmatchedParens(s)

\* An argument is [type, chars]: chars is the text of a str and <<>> otherwise;
\* falsy is Python's truth value of the argument negated.
StrArg(s) == [type |-> "str", chars |-> s, falsy |-> (s = <<>>)]
NoneArg == [type |-> "NoneType", chars |-> <<>>, falsy |-> TRUE]
IntArg(truthy) == [type |-> "int", chars |-> <<>>, falsy |-> ~truthy]

validate_expression(arg) ==
    IF arg.falsy \/ arg.type # "str" THEN FALSE
    ELSE LET s == Strip(arg.chars)
         IN  IF ~MatchesAllowed(s) THEN FALSE
             ELSE IF _has_invalid_syntax(s) THEN FALSE
             ELSE TRUE

(***************************************************************************)
(* Python numbers                                                          *)
(***************************************************************************)
RECURSIVE GCD(_, _)
GCD(a, b) == IF b = 0 THEN a ELSE GCD(b, a % b)

Abs(x) == IF x < 0 THEN -x ELSE x

\* places = 0: the value is n/d.  places = p > 0: the value is n/d rounded
\* to p decimal places (kept only where rounding changes the value).
IntVal(n) == [kind |-> "int", n |-> n, d |-> 1, places |-> 0]

FloatVal(n, d) ==
    LET g == GCD(Abs(n), Abs(d))
        s == IF d < 0 THEN -1 ELSE 1
    IN  [kind |-> "float", n |-> s * (n \div g), d |-> s * (d \div g), places |-> 0]

\* A float that is no fraction of small integers (an irrational power).
OpaqueFloat == [kind |-> "float", n |-> 0, d |-> 0, places |-> 0]
ComplexVal == [kind |-> "complex", n |-> 0, d |-> 0, places |-> 0]
TupleVal == [kind |-> "tuple", n |-> 0, d |-> 1, places |-> 0]
EllipsisVal == [kind |-> "ellipsis", n |-> 0, d |-> 1, places |-> 0]
NoValue == [kind |-> "none", n |-> 0, d |-> 1, places |-> 0]

IsNumber(v) == v.kind \in {"int", "float"}
IsOpaque(v) == v.kind = "float" /\ v.d = 0

\* float.is_integer()
IsInteger(v) == v.d = 1

RECURSIVE Pow10(_)
Pow10(k) == IF k = 0 THEN 1 ELSE 10 * Pow10(k - 1)

\* d divides 10^k: the fraction n/d has at most k decimal places.
RECURSIVE TerminatesWithin(_, _)
TerminatesWithin(d, k) ==
    IF d = 1 THEN TRUE
    ELSE IF k = 0 THEN FALSE
    ELSE LET g == GCD(d, 10)
         IN  IF g = 1 THEN FALSE ELSE TerminatesWithin(d \div g, k - 1)

\* round(x, ndigits) of a float
Round(v, ndigits) ==
    IF TerminatesWithin(v.d, ndigits) THEN v
    ELSE [v EXCEPT !.places = ndigits]

\* The value of a run of digits.
RECURSIVE DigitsValue(_)
DigitsValue(s) ==
    IF s = <<>> THEN 0
    ELSE 10 * DigitsValue(SubSeq(s, 1, Len(s) - 1)) + DigitVal(s[Len(s)])

\* float(text) of a literal made of digits and at most one '.'
ParseFloat(s) ==
    LET dots == {i \in 1..Len(s) : s[i] = "."}
        p == IF dots = {} THEN Len(s) + 1 ELSE CHOOSE i \in dots : TRUE
        whole == SubSeq(s, 1, p - 1)
        frac == SubSeq(s, p + 1, Len(s))
    IN  FloatVal(DigitsValue(whole \o frac), Pow10(Len(frac)))

\* operator.add / sub / mul / truediv on two floats
FloatAdd(x, y) == FloatVal(x.n * y.d + y.n * x.d, x.d * y.d)
FloatSub(x, y) == FloatVal(x.n * y.d - y.n * x.d, x.d * y.d)
FloatMul(x, y) == FloatVal(x.n * y.n, x.d * y.d)
FloatDiv(x, y) == FloatVal(x.n * y.d, x.d * y.n)

(***************************************************************************)
(* utils/calculator_core.py                                                *)
(***************************************************************************)
Returned(v) == [tag |-> "return", value |-> v, exc |-> "", msg |-> ""]
Raised(e, m) == [tag |-> "raise", value |-> NoValue, exc |-> e, msg |-> m]

\* self.operators
Operators == {"+", "-", "*", "/"}

ApplyOperator(op, x, y) ==
    CASE op = "+" -> FloatAdd(x, y)
      [] op = "-" -> FloatSub(x, y)
      [] op = "*" -> FloatMul(x, y)
      [] op = "/" -> FloatDiv(x, y)

\* \d*\.?\d+ against the whole of s
IsNumberLiteral(s) ==
    /\ Len(s) > 0
    /\ s[Len(s)] \in Digits
    /\ \A i \in 1..Len(s) : s[i] \in Digits \cup {"."}
    /\ Count(s, ".") <= 1

\* re.match(r'^(\d*\.?\d+)\s*([+\-*/])\s*(\d*\.?\d+)$', s): the matches as
\* <<end of group 1, position of group 2, start of group 3>>
SimpleMatches(s) ==
    {m \in (1..Len(s)) \X (1..Len(s)) \X (1..Len(s)) :
        /\ m[1] < m[2] /\ m[2] < m[3]
        /\ IsNumberLiteral(SubSeq(s, 1, m[1]))
        /\ \A k \in (m[1] + 1)..(m[2] - 1) : s[k] \in Whitespace
        /\ s[m[2]] \in {"+", "-", "*", "/"}
        /\ \A k \in (m[2] + 1)..(m[3] - 1) : s[k] \in Whitespace
        /\ IsNumberLiteral(SubSeq(s, m[3], Len(s)))}

\* The same without the collapse of whole numbers to int.
FormatResultNoInt(result) == Round(result, 10)

\* return int(result) if result.is_integer() else round(result, 10)
FormatResult(result) ==
    IF IsInteger(result) THEN IntVal(result.n) ELSE Round(result, 10)

\* The branch taken when the pattern matches (number operator number).
SimpleBranch(s, m) ==
    LET left_operand == ParseFloat(SubSeq(s, 1, m[1]))
        operator_symbol == s[m[2]]
        right_operand == ParseFloat(SubSeq(s, m[3], Len(s)))
    IN  IF operator_symbol \notin Operators
        THEN Raised("ValueError", "Unsupported operator")
        ELSE IF operator_symbol = "/" /\ right_operand.n = 0
        THEN Raised("ZeroDivisionError", "Division by zero")
        ELSE Returned(FormatResult(ApplyOperator(operator_symbol, left_operand, right_operand)))

(***************************************************************************)
(* eval(expression, {"__builtins__": {}}, {}) on a whitelisted string:     *)
(* Python's tokenizer, expression grammar and arithmetic, restricted to    *)
(* the tokens the whitelist lets through.                                  *)
(***************************************************************************)
Tok(t, op, v) == [t |-> t, op |-> op, v |-> v]

\* Last index of the run of digits that starts at i (i - 1 when there is none).
RECURSIVE DigitRunEnd(_, _)
DigitRunEnd(s, i) ==
    IF i <= Len(s) /\ s[i] \in Digits THEN DigitRunEnd(s, i + 1) ELSE i - 1

CharAt(s, i) == IF i >= 1 /\ i <= Len(s) THEN s[i] ELSE ""

\* The token list of s, or <<>> with ok = FALSE when the tokenizer or a lone
\* '.' (attribute access needs a name) makes the text a SyntaxError.
RECURSIVE Tokenize(_, _, _)
Tokenize(s, i, acc) ==
    IF i > Len(s) THEN [ok |-> TRUE, toks |-> acc]
    ELSE LET c == s[i] IN
      CASE c \in Whitespace -> Tokenize(s, i + 1, acc)
        [] c \in {"(", ")"} ->
             Tokenize(s, i + 1, Append(acc, Tok(c, "", NoValue)))
        [] c \in {"+", "-"} ->
             Tokenize(s, i + 1, Append(acc, Tok("op", c, NoValue)))
        [] c \in {"*", "/"} ->
             IF CharAt(s, i + 1) = c
             THEN Tokenize(s, i + 2,
                           Append(acc, Tok("op", IF c = "*" THEN "**" ELSE "//", NoValue)))
             ELSE Tokenize(s, i + 1, Append(acc, Tok("op", c, NoValue)))
        [] c = "." ->
             IF CharAt(s, i + 1) \in Digits
             THEN LET j == DigitRunEnd(s, i + 1)
                  IN  Tokenize(s, j + 1,
                               Append(acc, Tok("num", "", ParseFloat(SubSeq(s, i, j)))))
             ELSE IF CharAt(s, i + 1) = "." /\ CharAt(s, i + 2) = "."
             THEN Tokenize(s, i + 3, Append(acc, Tok("...", "", EllipsisVal)))
             ELSE [ok |-> FALSE, toks |-> <<>>]
        [] c \in Digits ->
             LET j == DigitRunEnd(s, i)
             IN  IF CharAt(s, j + 1) = "."
                 THEN LET k == DigitRunEnd(s, j + 2)
                      IN  Tokenize(s, k + 1,
                                   Append(acc, Tok("num", "", ParseFloat(SubSeq(s, i, k)))))
                 ELSE IF c = "0" /\ \E k \in i..j : s[k] # "0"
                 THEN [ok |-> FALSE, toks |-> <<>>]   \* leading zeros in an integer
                 ELSE Tokenize(s, j + 1,
                               Append(acc, Tok("num", "", IntVal(DigitsValue(SubSeq(s, i, j))))))
        [] OTHER -> [ok |-> FALSE, toks |-> <<>>]

RECURSIVE IntPow(_, _)
IntPow(b, e) == IF e = 0 THEN 1 ELSE b * IntPow(b, e - 1)

\* Floor of a / b for any sign of b # 0.
FloorDiv(a, b) == IF b < 0 THEN (-a) \div (-b) ELSE a \div b

\* Whether x >= 0 is a perfect q-th power, and its root.
HasRoot(x, q) == \E r \in 0..x : IntPow(r, q) = x
Root(x, q) == CHOOSE r \in 0..x : IntPow(r, q) = x

\* x ** k for a fraction x and an integer k
FracPow(x, k) ==
    IF k >= 0 THEN FloatVal(IntPow(x.n, k), IntPow(x.d, k))
    ELSE FloatVal(IntPow(x.d, -k), IntPow(x.n, -k))

\* float_pow: x ** y with at least one float operand, or a negative int exponent
FloatPow(x, y) ==
    IF IsOpaque(y) THEN
        IF ~IsOpaque(x) /\ x.n = x.d THEN Returned(FloatVal(1, 1))
        ELSE Returned(OpaqueFloat)
    ELSE IF y.n = 0 THEN Returned(FloatVal(1, 1))
    ELSE IF IsOpaque(x) THEN Returned(OpaqueFloat)
    ELSE IF x.n = 0 THEN
        IF y.n < 0 THEN Raised("ZeroDivisionError", "") ELSE Returned(FloatVal(0, 1))
    ELSE IF y.d = 1 THEN Returned(FracPow(x, y.n))
    ELSE IF x.n = x.d THEN Returned(FloatVal(1, 1))
    ELSE IF x.n < 0 THEN Returned(ComplexVal)
    ELSE IF HasRoot(x.n, y.d) /\ HasRoot(x.d, y.d)
    THEN Returned(FracPow(FloatVal(Root(x.n, y.d), Root(x.d, y.d)), y.n))
    ELSE Returned(OpaqueFloat)

\* Binary arithmetic on two ints.
IntArith(op, x, y) ==
    CASE op = "+" -> Returned(IntVal(x.n + y.n))
      [] op = "-" -> Returned(IntVal(x.n - y.n))
      [] op = "*" -> Returned(IntVal(x.n * y.n))
      [] op = "/" -> IF y.n = 0 THEN Raised("ZeroDivisionError", "")
                     ELSE Returned(FloatVal(x.n, y.n))
      [] op = "//" -> IF y.n = 0 THEN Raised("ZeroDivisionError", "")
                      ELSE Returned(IntVal(FloorDiv(x.n, y.n)))
      [] op = "**" -> IF y.n >= 0 THEN Returned(IntVal(IntPow(x.n, y.n)))
                      ELSE FloatPow(x, y)

\* Binary arithmetic on two numbers of which at least one is a float.
FloatArith(op, x, y) ==
    IF op = "**" THEN FloatPow(x, y)
    ELSE IF op \in {"/", "//"} /\ ~IsOpaque(y) /\ y.n = 0
    THEN Raised("ZeroDivisionError", "")
    ELSE IF IsOpaque(x) \/ IsOpaque(y) THEN Returned(OpaqueFloat)
    ELSE CASE op = "+" -> Returned(FloatAdd(x, y))
           [] op = "-" -> Returned(FloatSub(x, y))
           [] op = "*" -> Returned(FloatMul(x, y))
           [] op = "/" -> Returned(FloatDiv(x, y))
           [] op = "//" -> Returned(FloatVal(FloorDiv(x.n * y.d, x.d * y.n), 1))

\* x op y on Python values
Arith(op, x, y) ==
    IF x.kind = "ellipsis" \/ y.kind = "ellipsis" THEN Raised("TypeError", "")
    ELSE IF x.kind = "tuple" \/ y.kind = "tuple" THEN
        IF \/ op = "+" /\ x.kind = "tuple" /\ y.kind = "tuple"
           \/ op = "*" /\ {x.kind, y.kind} = {"tuple", "int"}
        THEN Returned(TupleVal)
        ELSE Raised("TypeError", "")
    ELSE IF x.kind = "complex" \/ y.kind = "complex" THEN
        IF op = "//" THEN Raised("TypeError", "")
        ELSE IF op = "/" /\ IsNumber(y) /\ ~IsOpaque(y) /\ y.n = 0
        THEN Raised("ZeroDivisionError", "")
        ELSE Returned(ComplexVal)
    ELSE IF x.kind = "int" /\ y.kind = "int" THEN IntArith(op, x, y)
    ELSE FloatArith(op, x, y)

\* +x and -x on a Python value
Unary(op, x) ==
    IF x.kind \in {"tuple", "ellipsis"} THEN Raised("TypeError", "")
    ELSE IF op = "+" \/ x.kind = "complex" THEN Returned(x)
    ELSE Returned([x EXCEPT !.n = -x.n])

\* Operands are evaluated left to right; the first exception wins.
BinOp(op, l, r) ==
    IF l.tag = "raise" THEN l
    ELSE IF r.tag = "raise" THEN r
    ELSE Arith(op, l.value, r.value)

UnOp(op, e) == IF e.tag = "raise" THEN e ELSE Unary(op, e.value)

\* callee(argument): no value of these expressions is callable.
Call(callee, arg) ==
    IF callee.tag = "raise" THEN callee
    ELSE IF arg.tag = "raise" THEN arg
    ELSE Raised("TypeError", "")

\* A parse step: ok = FALSE is a SyntaxError; otherwise out is what evaluating
\* the parsed text gives and pos the index of the next token.
Parsed(out, pos) == [ok |-> TRUE, out |-> out, pos |-> pos]
SyntaxError == [ok |-> FALSE, out |-> Raised("SyntaxError", ""), pos |-> 0]

IsTok(toks, i, t) == i <= Len(toks) /\ toks[i].t = t
IsOp(toks, i, ops) == i <= Len(toks) /\ toks[i].t = "op" /\ toks[i].op \in ops

\* '(' expression ')' once the expression e is parsed
Closing(toks, e) ==
    IF e.ok /\ IsTok(toks, e.pos, ")") THEN Parsed(e.out, e.pos + 1) ELSE SyntaxError

None == Raised("", "")

\* The recursive-descent parser of the expression grammar, one rule per
\* value of rule; left is the operand already parsed for the two rules that
\* continue a chain.
RECURSIVE Parse(_, _, _, _)
Parse(rule, toks, i, left) ==
    CASE rule = "atom" ->
           \* atom: NUMBER | '...' | '(' ')' | '(' expression ')'
           IF IsTok(toks, i, "num") \/ IsTok(toks, i, "...")
           THEN Parsed(Returned(toks[i].v), i + 1)
           ELSE IF IsTok(toks, i, "(") THEN
               IF IsTok(toks, i + 1, ")") THEN Parsed(Returned(TupleVal), i + 2)
               ELSE Closing(toks, Parse("sum", toks, i + 1, None))
           ELSE SyntaxError
      [] rule = "trailers" ->
           \* primary: primary '(' [argument] ')' with one argument at most (no
           \* comma): expression, '*' expression or '**' expression
           IF ~IsTok(toks, i, "(") THEN Parsed(left, i)
           ELSE IF IsTok(toks, i + 1, ")")
           THEN Parse("trailers", toks, i + 2, Call(left, Returned(TupleVal)))
           ELSE LET from == IF IsOp(toks, i + 1, {"*", "**"}) THEN i + 2 ELSE i + 1
                    arg == Closing(toks, Parse("sum", toks, from, None))
                IN  IF arg.ok THEN Parse("trailers", toks, arg.pos, Call(left, arg.out))
                    ELSE SyntaxError
      [] rule = "primary" ->
           \* primary: atom trailers
           LET a == Parse("atom", toks, i, None)
           IN  IF a.ok THEN Parse("trailers", toks, a.pos, a.out) ELSE SyntaxError
      [] rule = "power" ->
           \* power: primary ['**' factor]
           LET p == Parse("primary", toks, i, None)
           IN  IF ~p.ok THEN SyntaxError
               ELSE IF IsOp(toks, p.pos, {"**"})
               THEN LET f == Parse("factor", toks, p.pos + 1, None)
                    IN  IF f.ok THEN Parsed(BinOp("**", p.out, f.out), f.pos)
                        ELSE SyntaxError
               ELSE p
      [] rule = "factor" ->
           \* factor: ('+' | '-') factor | power
           IF IsOp(toks, i, {"+", "-"})
           THEN LET f == Parse("factor", toks, i + 1, None)
                IN  IF f.ok THEN Parsed(UnOp(toks[i].op, f.out), f.pos) ELSE SyntaxError
           ELSE Parse("power", toks, i, None)
      [] rule = "term" ->
           \* term: factor (('*' | '/' | '//') factor)*
           LET f == Parse("factor", toks, i, None)
           IN  IF f.ok THEN Parse("term_rest", toks, f.pos, f.out) ELSE SyntaxError
      [] rule = "term_rest" ->
           IF IsOp(toks, i, {"*", "/", "//"})
           THEN LET f == Parse("factor", toks, i + 1, None)
                IN  IF f.ok
                    THEN Parse("term_rest", toks, f.pos, BinOp(toks[i].op, left, f.out))
                    ELSE SyntaxError
           ELSE Parsed(left, i)
      [] rule = "sum" ->
           \* sum: term (('+' | '-') term)*
           LET r == Parse("term", toks, i, None)
           IN  IF r.ok THEN Parse("sum_rest", toks, r.pos, r.out) ELSE SyntaxError
      [] rule = "sum_rest" ->
           IF IsOp(toks, i, {"+", "-"})
           THEN LET r == Parse("term", toks, i + 1, None)
                IN  IF r.ok
                    THEN Parse("sum_rest", toks, r.pos, BinOp(toks[i].op, left, r.out))
                    ELSE SyntaxError
           ELSE Parsed(left, i)

\* eval(s, ...): the value, or the exception compiling or evaluating s raises
PyEval(s) ==
    LET lexed == Tokenize(s, 1, <<>>)
    IN  IF ~lexed.ok THEN SyntaxError.out
        ELSE LET e == Parse("sum", lexed.toks, 1, None)
             IN  IF e.ok /\ e.pos = Len(lexed.toks) + 1 THEN e.out ELSE SyntaxError.out

_safe_eval(s) ==
    IF ~MatchesAllowed(s)
    THEN Raised("ValueError", "Expression contains invalid characters")
    ELSE LET r == PyEval(s)
         IN  IF r.tag = "raise" THEN Raised("ValueError", "Invalid expression format")
             ELSE r

\* Calculator.evaluate(expression) for a str argument
evaluate(chars) ==
    LET s == RemoveSpaces(chars)
        matches == SimpleMatches(s)
    IN  IF s = <<>> THEN Raised("ValueError", "Empty expression")
        ELSE IF matches # {} THEN SimpleBranch(s, CHOOSE m \in matches : TRUE)
        ELSE _safe_eval(s)

(***************************************************************************)
(* str(result)                                                             *)
(***************************************************************************)
\* The decimal digits of n >= 0.
RECURSIVE NatStr(_)
NatStr(n) == IF n < 10 THEN <<DigitChar(n)>> ELSE NatStr(n \div 10) \o <<DigitChar(n % 10)>>

\* The first k digits after the point of r/d, where 0 <= r < d.
RECURSIVE FracDigits(_, _, _)
FracDigits(r, d, k) ==
    IF k = 0 THEN <<>>
    ELSE <<(10 * r) \div d>> \o FracDigits((10 * r) % d, d, k - 1)

\* The remainder left after k digits of r/d.
RECURSIVE FracRest(_, _, _)
FracRest(r, d, k) == IF k = 0 THEN r ELSE FracRest((10 * r) % d, d, k - 1)

\* digits + 1 in the last place; carry is TRUE when it overflows into the
\* integer part.
RECURSIVE Increment(_)
Increment(ds) ==
    IF ds = <<>> THEN [digits |-> <<>>, carry |-> TRUE]
    ELSE IF ds[Len(ds)] < 9
    THEN [digits |-> [ds EXCEPT ![Len(ds)] = @ + 1], carry |-> FALSE]
    ELSE LET up == Increment(SubSeq(ds, 1, Len(ds) - 1))
         IN  [digits |-> Append(up.digits, 0), carry |-> up.carry]

RECURSIVE DropTrailingZeros(_)
DropTrailingZeros(ds) ==
    IF Len(ds) > 1 /\ ds[Len(ds)] = 0 THEN DropTrailingZeros(SubSeq(ds, 1, Len(ds) - 1))
    ELSE ds

\* The digits a float prints after the point: all of them when the fraction
\* terminates within 16 places, the rounded ones when places > 0.
FloatFraction(v) ==
    LET a == Abs(v.n)
        k == IF v.places > 0 THEN v.places ELSE 16
        ds == FracDigits(a % v.d, v.d, k)
        up == 2 * FracRest(a % v.d, v.d, k) >= v.d
        rounded == IF up THEN Increment(ds) ELSE [digits |-> ds, carry |-> FALSE]
    IN  [whole |-> (a \div v.d) + (IF rounded.carry THEN 1 ELSE 0),
         digits |-> DropTrailingZeros(IF rounded.digits = <<>> THEN <<0>> ELSE rounded.digits)]

\* str(result) of what evaluate returns, in positional notation
Str(v) ==
    CASE v.kind = "int" ->
           (IF v.n < 0 THEN <<"-">> ELSE <<>>) \o NatStr(Abs(v.n))
      [] v.kind = "tuple" -> <<"(", ")">>
      [] v.kind = "float" /\ v.d # 0 ->
           LET f == FloatFraction(v)
           IN  (IF v.n < 0 THEN <<"-">> ELSE <<>>) \o NatStr(f.whole) \o <<".">>
                 \o [i \in 1..Len(f.digits) |-> DigitChar(f.digits[i])]
      [] OTHER -> <<"?">>

(***************************************************************************)
(* The pure functions applied to one argument.                             *)
(***************************************************************************)
\* Characters the arguments of SpecEval are made of.
EvalAlphabet == {"0", "1", "2", "+", "-", "*", "/", ".", "(", ")", " ", "\t", "a"}

Strings(alphabet, n) == UNION {[1..k -> alphabet] : k \in 0..n}

NotCalled == [tag |-> "none", value |-> NoValue, exc |-> "", msg |-> ""]

\* Before any request: an empty table, nothing requested, nothing answered.
SessionIds == {"s1", "s2"}

\* str(uuid.uuid4()): the ids generated, in order, distinct from every other
Uuids == <<"uuid-1">>

AllSessions == SessionIds \cup {Uuids[n] : n \in 1..Len(Uuids)}

\* No X-Session-ID header (or an empty one).
NoHeader == ""

NoRequest == [op |-> "none", header |-> NoHeader, json |-> TRUE,
              expression |-> <<>>, limit |-> 0, calc_id |-> 0]
NoResponse == [status |-> 0, result |-> NoValue, session_id |-> "",
               is_valid |-> FALSE, rows |-> <<>>]

ServiceInit ==
    /\ store = {}
    /\ clock = 0
    /\ issued = 0
    /\ made = [s \in AllSessions |-> {}]
    /\ request = NoRequest
    /\ response = NoResponse
    /\ removed = {}

serviceVars == <<store, clock, issued, made, request, response, removed>>

PureInit(args) ==
    /\ expression \in args
    /\ pc = "input"
    /\ verdict = FALSE
    /\ outcome = NotCalled
    /\ ServiceInit

InitEval ==
    /\ operands = <<>>
    /\ PureInit({StrArg(s) : s \in Strings(EvalAlphabet, MaxLen)}
                  \cup {NoneArg, IntArg(TRUE), IntArg(FALSE)})

\* The text of a two-operand expression: '<a> <op> <b>'
BinaryText(a, op, b) == NatStr(a) \o <<" ", op, " ">> \o NatStr(b)

InitBinary ==
    /\ operands \in (0..MaxOperand) \X Operators \X (0..MaxOperand)
    /\ PureInit({StrArg(BinaryText(operands[1], operands[2], operands[3]))})

\* validate_expression(expression)
Validate ==
    /\ pc = "input"
    /\ verdict' = validate_expression(expression)
    /\ pc' = "validated"
    /\ UNCHANGED <<expression, outcome, operands, serviceVars>>

\* Calculator().evaluate(expression), whatever the validator said
Evaluate ==
    /\ pc = "validated"
    /\ expression.type = "str"
    /\ outcome' = evaluate(expression.chars)
    /\ pc' = "evaluated"
    /\ UNCHANGED <<expression, verdict, operands, serviceVars>>

NextPure == Validate \/ Evaluate

SpecEval == InitEval /\ [][NextPure]_vars

SpecBinary == InitBinary /\ [][NextPure]_vars

(***************************************************************************)
(* routes/calculator_routes.py, routes/history_routes.py                   *)
(***************************************************************************)
\* Expressions the clients of the model post.
AppExprs ==
    {<<"2", " ", "+", " ", "3">>,
     <<" ", "1", " ", "/", " ", "3">>,
     <<"1", "0", " ", "/", " ", "0">>,
     <<"2", " ", "+", " ", "+", " ", "3">>,
     <<")", "(">>}

\* request.get_json(): a JSON object with an expression, or no JSON at all
Bodies ==
    {[json |-> TRUE, expression |-> e] : e \in AppExprs}
        \cup {[json |-> FALSE, expression |-> <<>>]}

\* request.args.get('limit', 50, type=int) when the query gives no limit
DefaultLimit == 50

Limits == {DefaultLimit, 1}

\* The X-Session-ID values a client can send: its own ids and the generated
\* ids earlier responses told it.
Headers == SessionIds \cup {NoHeader} \cup {Uuids[n] : n \in 1..issued}

Reply(status) == [NoResponse EXCEPT !.status = status]

\* The primary key SQLite gives a new row: one more than the largest in use.
NextId(table) ==
    IF table = {} THEN 1
    ELSE 1 + (CHOOSE i \in {r.id : r \in table} : \A r \in table : r.id <= i)

Row(table, expr, result, session_id, now) ==
    [id |-> NextId(table), expression |-> expr, result |-> Str(result),
     timestamp |-> now, session_id |-> session_id]

Answer(status, persist, expr, result) ==
    [status |-> status, persist |-> persist, expression |-> expr, result |-> result]

\* calculate() with the row added before the outcome is looked at.
AfterEvaluateStoreFirst(expr, r) ==
    IF r.tag = "raise" THEN Answer(400, TRUE, expr, NoValue)
    ELSE Answer(200, TRUE, expr, r.value)

\* What calculate() does once the expression is evaluated.
AfterEvaluate(expr, r) ==
    IF r.tag = "raise"
    THEN Answer(IF r.exc \in {"ZeroDivisionError", "ValueError"} THEN 400 ELSE 500,
                FALSE, expr, NoValue)
    ELSE Answer(200, TRUE, expr, r.value)

\* What calculate() does with the stripped expression.
ValidateAndEvaluate(expr) ==
    IF ~validate_expression(StrArg(expr)) THEN Answer(400, FALSE, expr, NoValue)
    ELSE AfterEvaluate(expr, evaluate(expr))

\* calculate(): the status answered, and what is persisted if anything
calculate(body) ==
    IF ~body.json THEN Answer(500, FALSE, <<>>, NoValue)
    ELSE ValidateAndEvaluate(Strip(body.expression))

\* calculate() on each body of the model
Answers == [body \in Bodies |-> calculate(body)]

CalculateStep(h, body, session_id, c) ==
    /\ request' = [op |-> "calculate", header |-> h, json |-> body.json,
                   expression |-> body.expression, limit |-> 0, calc_id |-> 0]
    /\ IF c.persist
       THEN /\ clock < MaxInserts
            /\ h = NoHeader => issued < Len(Uuids)
            /\ store' = store \cup {Row(store, c.expression, c.result, session_id, clock + 1)}
            /\ made' = [made EXCEPT ![session_id] =
                          @ \cup {Row(store, c.expression, c.result, session_id, clock + 1)}]
            /\ clock' = clock + 1
            /\ issued' = IF h = NoHeader THEN issued + 1 ELSE issued
       ELSE UNCHANGED <<store, made, clock, issued>>
    /\ response' = IF c.status = 200
                   THEN [Reply(200) EXCEPT !.result = c.result, !.session_id = session_id]
                   ELSE Reply(c.status)
    /\ UNCHANGED <<expression, pc, verdict, outcome, operands>>
    /\ removed' = {}

\* POST /api/calculator/calculate
Calculate ==
    \E h \in Headers, body \in Bodies :
        CalculateStep(h, body,
                      IF h # NoHeader THEN h
                      ELSE IF issued < Len(Uuids) THEN Uuids[issued + 1] ELSE "",
                      Answers[body])

\* POST /api/calculator/validate
ValidateRoute ==
    \E body \in Bodies :
        /\ request' = [op |-> "validate", header |-> NoHeader, json |-> body.json,
                       expression |-> body.expression, limit |-> 0, calc_id |-> 0]
        /\ response' = IF body.json
                       THEN [Reply(200) EXCEPT !.is_valid =
                               validate_expression(StrArg(Strip(body.expression)))]
                       ELSE Reply(500)
        /\ UNCHANGED <<store, made, clock, issued>>
        /\ UNCHANGED <<expression, pc, verdict, outcome, operands>>
        /\ removed' = {}

\* The table emptied, whatever the session.
ClearedAll(table, session_id) == {}

\* Calculation.query.filter_by(session_id=session_id).delete()
Cleared(table, session_id) == {r \in table : r.session_id # session_id}

\* POST /api/calculator/clear
ClearHistory ==
    \E h \in Headers :
        /\ request' = [op |-> "clear", header |-> h, json |-> TRUE,
                       expression |-> <<>>, limit |-> 0, calc_id |-> 0]
        /\ IF h # NoHeader
           THEN /\ store' = Cleared(store, h)
                /\ made' = [made EXCEPT ![h] = {}]
           ELSE UNCHANGED <<store, made>>
        /\ response' = Reply(200)
        /\ UNCHANGED <<clock, issued>>
        /\ UNCHANGED <<expression, pc, verdict, outcome, operands>>
        /\ removed' = {}

\* .limit(limit): SQLite takes a negative limit as no limit
PageSize(n, limit) == IF limit < 0 \/ limit > n THEN n ELSE limit

\* filter_by(session_id=...).order_by(timestamp.desc()).limit(limit).all():
\* the pages the database may return, newest row first
HistoryPages(table, session_id, limit) ==
    LET rows == {r \in table : r.session_id = session_id}
        k == PageSize(Cardinality(rows), limit)
    IN  {page \in [1..k -> rows] :
            /\ \A i, j \in 1..k : i < j =>
                  page[i] # page[j] /\ page[i].timestamp >= page[j].timestamp
            /\ \A r \in rows : (\A i \in 1..k : page[i] # r) =>
                  \A i \in 1..k : page[i].timestamp >= r.timestamp}

\* GET /api/history/
GetHistory ==
    \E h \in Headers, l \in Limits :
        /\ request' = [op |-> "history", header |-> h, json |-> TRUE,
                       expression |-> <<>>, limit |-> l, calc_id |-> 0]
        /\ IF h = NoHeader THEN response' = Reply(400)
           ELSE \E page \in HistoryPages(store, h, l) :
                    response' = [Reply(200) EXCEPT !.rows = page]
        /\ UNCHANGED <<store, made, clock, issued>>
        /\ UNCHANGED <<expression, pc, verdict, outcome, operands>>
        /\ removed' = {}

\* The <int:calc_id> values a client puts in the URL: the ids rows can have,
\* and two no row ever has.
CalcIds == 0..(MaxInserts + 1)

\* Calculation.query.get(calc_id): the rows with that primary key
Found(table, calc_id) == {r \in table : r.id = calc_id}

\* The table without the rows up to calc_id.
DeletedUpTo(table, calc_id) == {r \in table : r.id > calc_id}

\* db.session.delete(calculation); db.session.commit()
Deleted(table, calc_id) == table \ Found(table, calc_id)

\* DELETE /api/history/<calc_id>: the X-Session-ID header is never read
DeleteCalculation ==
    \E h \in Headers, calc_id \in CalcIds :
        /\ request' = [op |-> "delete", header |-> h, json |-> TRUE,
                       expression |-> <<>>, limit |-> 0, calc_id |-> calc_id]
        /\ IF Found(store, calc_id) # {}
           THEN /\ store' = Deleted(store, calc_id)
                /\ response' = Reply(200)
           ELSE /\ store' = store
                /\ response' = Reply(404)
        /\ removed' = Found(store, calc_id)
        /\ made' = [s \in AllSessions |-> made[s] \ Found(store, calc_id)]
        /\ UNCHANGED <<clock, issued>>
        /\ UNCHANGED <<expression, pc, verdict, outcome, operands>>

Init ==
    /\ expression = StrArg(<<>>)
    /\ pc = "service"
    /\ verdict = FALSE
    /\ outcome = NotCalled
    /\ operands = <<>>
    /\ ServiceInit

Next == Calculate \/ ValidateRoute \/ ClearHistory \/ GetHistory

Spec == Init /\ [][Next]_vars

\* The routes that write the calculations table.
NextHistory == Calculate \/ ClearHistory \/ DeleteCalculation

SpecHistory == Init /\ [][NextHistory]_vars

(***************************************************************************)
(* Properties of the validator and the evaluator                           *)
(***************************************************************************)
Evaluated == pc = "evaluated"
Text == expression.chars

InvalidFormat(o) ==
    /\ o.tag = "raise" /\ o.exc = "ValueError"
    /\ o.msg \in {"Invalid expression format", "Expression contains invalid characters"}

\* C1: every expression validate_expression accepts is evaluated without the
\* invalid-format error (a value, or division by zero).
C1_RoundTrip == (Evaluated /\ verdict) => ~InvalidFormat(outcome)

\* Evaluating s divides by zero: the simple branch sees '/' and a zero right
\* operand, or eval raises ZeroDivisionError.
DividesByZero(chars) ==
    LET s == RemoveSpaces(chars)
        matches == SimpleMatches(s)
    IN  IF s = <<>> THEN FALSE
        ELSE IF matches # {}
        THEN LET m == CHOOSE m \in matches : TRUE
             IN  s[m[2]] = "/" /\ ParseFloat(SubSeq(s, m[3], Len(s))).n = 0
        ELSE MatchesAllowed(s) /\ PyEval(s).exc = "ZeroDivisionError"

\* C2: whenever evaluating an expression divides by zero, evaluate fails with
\* ZeroDivisionError, on the simple branch and on the general one.
C2_DivisionByZero ==
    (Evaluated /\ DividesByZero(Text)) =>
        (outcome.tag = "raise" /\ outcome.exc = "ZeroDivisionError")

\* v is a whole number returned as int, or another number with at most 10
\* decimal places.
Formatted(v) ==
    IF v.d = 1 THEN v.kind = "int"
    ELSE v.places = 10 \/ TerminatesWithin(v.d, 10)

\* C3: on both branches a returned whole number is an int and any other
\* number is rounded to 10 decimal places.
C3_SameFormatting ==
    (Evaluated /\ outcome.tag = "return" /\ IsNumber(outcome.value)
        /\ ~IsOpaque(outcome.value)) => Formatted(outcome.value)

NamedErrors ==
    {<<"ValueError", "Empty expression">>,
     <<"ValueError", "Unsupported operator">>,
     <<"ZeroDivisionError", "Division by zero">>,
     <<"ValueError", "Invalid expression format">>,
     <<"ValueError", "Expression contains invalid characters">>}

\* C4: evaluate returns an int or a float, or raises one of the named errors.
C4_NumericOrNamedError ==
    Evaluated =>
        \/ outcome.tag = "return" /\ IsNumber(outcome.value)
        \/ outcome.tag = "raise" /\ <<outcome.exc, outcome.msg>> \in NamedErrors

\* C5: an expression with two or more consecutive operators from + * / (spaces
\* removed) is rejected by validate_expression and makes evaluate fail.
C5_ConsecutiveOperators ==
    (Evaluated /\ ConsecutiveOperators(RemoveSpaces(Text))) =>
        (verdict = FALSE /\ outcome.tag = "raise")

OnlyWhitespace(chars) == \A i \in 1..Len(chars) : chars[i] \in Whitespace

\* C6: an empty or all-whitespace expression is rejected by the validator and
\* makes evaluate raise ValueError('Empty expression'); None and non-str
\* arguments are rejected by the validator.
C6_EmptyExpression ==
    /\ (pc # "input" /\ expression.type # "str") => verdict = FALSE
    /\ (Evaluated /\ OnlyWhitespace(Text)) =>
          /\ verdict = FALSE
          /\ outcome = Raised("ValueError", "Empty expression")

Divides(b, a) == b # 0 /\ a % b = 0

BinaryCase == Evaluated /\ (operands[2] = "/" => operands[3] # 0)

\* The int a op b, for the three operators closed over the integers.
IntResult(a, op, b) ==
    CASE op = "+" -> a + b [] op = "-" -> a - b [] op = "*" -> a * b

\* C7 as stated: evaluate returns the exact value of a op b, an int when the
\* value is whole.
C7_ExactValue ==
    BinaryCase =>
        LET a == operands[1]
            op == operands[2]
            b == operands[3]
            v == outcome.value
        IN  /\ outcome.tag = "return"
            /\ v.places = 0
            /\ IF op = "/" THEN v.n * b = a * v.d ELSE v.n = IntResult(a, op, b) /\ v.d = 1
            /\ (v.d = 1) => v.kind = "int"

\* C7 amended: the int a op b for + - *; for '/', the int a / b when b
\* divides a, otherwise the float a / b rounded to 10 decimal places.
C7_ValueRoundedTo10 ==
    BinaryCase =>
        LET a == operands[1]
            op == operands[2]
            b == operands[3]
            v == outcome.value
        IN  /\ outcome.tag = "return"
            /\ IF op = "/" THEN v.n * b = a * v.d /\ GCD(Abs(v.n), v.d) = 1
               ELSE v.n = IntResult(a, op, b) /\ v.d = 1
            /\ IF op # "/" \/ Divides(b, a)
               THEN v.kind = "int" /\ v.places = 0
               ELSE /\ v.kind = "float"
                    /\ v.places = (IF TerminatesWithin(v.d, 10) THEN 0 ELSE 10)
                    /\ Len(FloatFraction(v).digits) <= 10

\* C7: 1 / 3 was evaluated and returned 0.3333333333, a quotient that is not
\* whole and has more than ten decimals.
C7_Witness ==
    /\ Evaluated /\ operands = <<1, "/", 3>>
    /\ outcome.tag = "return"
    /\ Str(outcome.value) = <<"0", ".", "3", "3", "3", "3", "3", "3", "3", "3", "3", "3">>

\* A run of two or more '-' in s.
HasMinusRun(s) == \E i \in 1..(Len(s) - 1) : s[i] = "-" /\ s[i + 1] = "-"

\* Every run of two or more '-' in s ends right before a digit.
MinusRunsBeforeDigit(s) ==
    \A i \in 1..(Len(s) - 1) :
        (s[i] = "-" /\ s[i + 1] = "-") =>
            \E j \in (i + 2)..Len(s) :
                s[j] \in Digits /\ \A k \in i..(j - 1) : s[k] = "-"

\* The other checks of the validator pass on the stripped text.
OtherChecksPass(chars) ==
    LET s == RemoveSpaces(Strip(chars))
    IN  /\ MatchesAllowed(Strip(chars))
        /\ ~ConsecutiveOperators(s)
        /\ ~OperatorAtEnds(s)
        /\ ~MultipleDecimalPoints(s)
        /\ ~UnmatchedParens(s)

ValidatorRan == pc # "input" /\ expression.type = "str"

RowsOf(table, session_id) == {r \in table : r.session_id = session_id}

Returned200(op) == request.op = op /\ response.status = 200

\* C8: the history of a session is exactly the rows its successful calculate
\* requests created since its last clear; GET /api/history/ with that session
\* id returns them (all of them below the limit) and no row of another session.
C8_HistoryIsolated ==
    /\ \A s \in AllSessions : RowsOf(store, s) = made[s]
    /\ Returned200("history") =>
          LET page == {response.rows[i] : i \in 1..Len(response.rows)}
          IN  /\ \A r \in page : r.session_id = request.header
              /\ page \subseteq made[request.header]
              /\ Cardinality(made[request.header]) < request.limit =>
                    /\ page = made[request.header]
                    /\ Len(response.rows) = Cardinality(page)

\* C8: a history request of s1 returned its single row while s2 holds a row
\* too and a third row was cleared.
C8_Witness ==
    /\ Returned200("history") /\ request.header = "s1"
    /\ Len(response.rows) = 1
    /\ made["s2"] # {}
    /\ clock = 3 /\ Cardinality(store) = 2

\* What a calculate request does to the table when the row of a success
\* holds the text expr.
StoresOnlySuccess(expr) ==
    IF response'.status = 200
    THEN \E row \in store' :
            /\ row \notin store
            /\ store' = store \cup {row}
            /\ row.expression = expr
            /\ row.result = Str(response'.result)
            /\ row.session_id = response'.session_id
            /\ request'.header # NoHeader => row.session_id = request'.header
    ELSE response'.status \in {400, 500} /\ store' = store

\* C9 as stated: an error status leaves the table unchanged and a 200 adds one
\* row holding the submitted expression, str(result) and the session id.
C9_StoresSubmitted ==
    [][request'.op = "calculate" => StoresOnlySuccess(request'.expression)]_vars

\* C9 amended: the row holds the submitted expression with the surrounding
\* whitespace stripped.
C9_StoresStripped ==
    [][request'.op = "calculate" => StoresOnlySuccess(Strip(request'.expression))]_vars

\* C9: ' 1 / 3' was answered 200 and its row holds '1 / 3', '0.3333333333'
\* and the session id answered.
C9_Witness ==
    /\ Returned200("calculate")
    /\ request.expression = <<" ", "1", " ", "/", " ", "3">>
    /\ \E row \in store :
          /\ row.expression = <<"1", " ", "/", " ", "3">>
          /\ row.result = <<"0", ".", "3", "3", "3", "3", "3", "3", "3", "3", "3", "3">>
          /\ row.session_id = response.session_id
    /\ Cardinality(store) = 2

(***************************************************************************)
(* Properties of the delete route                                          *)
(***************************************************************************)
\* C11: DELETE /api/history/<id> answers 200 and removes exactly the row with
\* that id, whichever session created it and whichever header the request
\* carries; when no row has that id it answers 404 and leaves the table as it
\* was.
C11_DeletesExactlyThatId ==
    [][request'.op = "delete" =>
          IF \E r \in store : r.id = request'.calc_id
          THEN /\ response'.status = 200
               /\ \E row \in store :
                     /\ row.id = request'.calc_id
                     /\ store' = store \ {row}
          ELSE response'.status = 404 /\ store' = store]_vars

\* C11: a delete carrying s1 was answered 200 and removed the row s2 had
\* created, which leaves s2 with no history; the rows of s1 are still there.
C11_Witness ==
    /\ Returned200("delete") /\ request.header = "s1"
    /\ \E row \in removed : row.session_id = "s2" /\ row.id = request.calc_id
    /\ RowsOf(store, "s2") = {}
    /\ RowsOf(store, "s1") # {}

====
